---------------------------- MODULE Spec2Model ----------------------------
(***************************************************************************)
(* Model of the Notion project/task synchronizer scripts:                  *)
(*   main.py                       NotionAIProjectManager    ("main")      *)
(*   website_project_automation.py WebsiteProjectAutomator   ("website")   *)
(*   templates/trading_ai.py       NotionTradingAIAutomator  ("template")  *)
(*   mission_control_enhancer.py   MissionControlEnhancer    ("enhancer")  *)
(*                                                                         *)
(* One behaviour is one process run of one script against a remote store.  *)
(* Every remote call is two steps, the request being issued and the        *)
(* blocking call returning (a status or a raised transport error), so the  *)
(* position of the script between the two is part of the state.            *)
(*                                                                         *)
(* Spec       one run, every call ends with a status or a transport error  *)
(* SpecFaults one run in which Ctrl-C or another exception can also occur  *)
(* SpecRuns   up to MaxRuns runs of the script against the same store      *)
(***************************************************************************)
EXTENDS Integers, Sequences, FiniteSets, TLC

(* ----------------------------- bounds --------------------------------- *)
\* length of the descriptor list returned by get_*_tasks / get_task_templates
BatchLen == 3
\* records in the remote store before the run
MaxInitProjects == 2
MaxInitTasks == 1
\* times the script is started against the same store
MaxRuns == 2
\* tasks linked to the script's project before a run with faults
MaxLinkedTasks == 2

(* ------------------------- remote answers ----------------------------- *)
\* status codes the remote can answer a request with
Statuses == {200, 201, 400}
\* what a blocking requests.* call can give back: a status, or it raises
\* requests.exceptions.RequestException
Exc == 0
Outcomes == Statuses \cup {Exc}
\* without a bearer token the remote rejects every request
Unauthorized == {400, Exc}
\* no answer received yet
NoAnswer == -1
\* a blocking call can also be cut short by Ctrl-C (KeyboardInterrupt, which
\* is no Exception), or raise an Exception that is no RequestException
Interrupt == 1
Unexpected == 2
Faults == {Interrupt, Unexpected}

\* the remote commits a write exactly when it answers it with a 2xx status
Accepted(o) == o \in Statuses /\ o >= 200 /\ o < 300

\* response.raise_for_status(): raises for 4xx and 5xx
RaisesForStatus(o) == o \in Statuses /\ o >= 400 /\ o < 600

(* --------------------------- titles ----------------------------------- *)
\* a title is an array of rich-text items; an item of type "text" has the
\* key 'text', a mention has not
Text(c) == [type |-> "text", content |-> c]
Mention(c) == [type |-> "mention", content |-> c]

RECURSIVE PlainText(_)
\* the plain text of a title: the contents of its items, concatenated
PlainText(title) ==
    IF title = <<>> THEN <<>>
    ELSE Head(title).content \o PlainText(Tail(title))

\* the remote's "contains" filter on the title
Contains(s, frag) ==
    \E a \in 1..(Len(s) + 1) :
        /\ a + Len(frag) - 1 <= Len(s)
        /\ SubSeq(s, a, a + Len(frag) - 1) = frag

\* record['properties']['Name']['title'][0]['text']['content'] can be read
\* (otherwise IndexError on an empty title, KeyError on a mention)
TitleReadable(rec) ==
    /\ Len(rec.title) > 0
    /\ rec.title[1].type = "text"

TradingFragment == <<"Dynamic", "Stock", "Trading">>
WebsiteFragment == <<"TryMyAnalysis">>
TestTaskFragment == <<"TEST", "TASK">>

TradingTitle == <<Text(<<"Dynamic", "Stock", "Trading", "AI", "Platform">>)>>
DatedTradingTitle == <<Mention(<<"2025">>), Text(<<"Dynamic", "Stock", "Trading">>)>>
WebsiteTitle == <<Text(<<"TryMyAnalysis", ".com", "Website">>)>>
TestTaskTitle == <<Text(<<"TEST", "TASK", "DELETE", "ME">>)>>
OldTaskTitle == <<Text(<<"Old", "task">>)>>

\* the title of the project the script works on
ProjectTitle(sc) == IF sc = "website" THEN WebsiteTitle ELSE TradingTitle

InitProjectTitles == {TradingTitle, DatedTradingTitle, WebsiteTitle, <<>>}
InitTaskTitles == {TestTaskTitle, OldTaskTitle, <<>>}

\* the name of descriptor i of a script's task list
TaskName(i) == <<"Task", ToString(i)>>

NoProject == 0
NoDate == "none"
Unset == "unset"
Running == -1
Scripts == {"main", "website", "template", "enhancer"}
\* an environment variable is unset, set to the empty string, or set
EnvValues == {"unset", "empty", "set"}
\* the variables the script's __init__ reads
EnvNames(sc) ==
    IF sc = "enhancer" THEN {"NOTION_TOKEN", "NOTION_PAGE_ID"}
    ELSE {"NOTION_TOKEN", "PROJECTS_DATABASE_ID", "TASKS_DATABASE_ID"}

VARIABLES
    projects,       \* remote store: the project collection, in result order
    tasks,          \* remote store: the task collection, in result order
    script,         \* the script this process runs
    remote,         \* what a blocking call can end with in this behaviour
    runs,           \* how many times the script has been started
    past,           \* what run_automation returned in the earlier runs
    env,            \* token, projects_db_id, tasks_db_id as read by __init__
    pc,             \* position of the script
    inflight,       \* requests issued whose call has not returned yet
    log,            \* every request issued in this run, in issue order
    project_id,     \* run_automation's project_id (NoProject: None)
    results,        \* the archiver's query results
    k,              \* the archiver's position in results
    archived_count, \* archive_old_website_tasks' archived_count
    i,              \* the task loop's position in the descriptor list
    added_count,    \* added_count / created_tasks
    failed_count,   \* failed_count
    tasks_success,  \* run_automation's tasks_success
    timeline_success,
    result,         \* what run_automation returned
    summary,        \* the task addition summary printed: <<added, failed, total>>
    exitCode,       \* the process exit code, Running until the process ends
    hist,           \* history of the remote's answers in this run
    database_ids,   \* MissionControlEnhancer.database_ids (its keys)
    db,             \* the database the enhancer is working on
    prop            \* the enhancer's position in new_properties

store == <<projects, tasks>>
proc == <<script, remote, runs, past, env, pc, project_id, results, k, archived_count, i,
          added_count, failed_count, tasks_success, timeline_success,
          result, summary, exitCode>>
net == <<inflight, log>>
enh == <<database_ids, db, prop>>
\* the automators' locals, which the enhancer does not have
automator == <<project_id, results, k, archived_count, i, added_count,
               failed_count, tasks_success, timeline_success, result, summary>>
vars == <<store, proc, net, hist, enh>>

(* ------------------------- the remote store --------------------------- *)
ProjectRecord(id, title) == [id |-> id, title |-> title, due |-> NoDate]

TaskRecord(id, title, pid, arch, d) ==
    [id |-> id, title |-> title, project |-> pid, archived |-> arch, desc |-> d]

InitProjectSeqs ==
    UNION { { [j \in 1..n |-> ProjectRecord(j, f[j])] : f \in [1..n -> InitProjectTitles] }
            : n \in 0..MaxInitProjects }

InitTaskSeqs(np) ==
    UNION { { [j \in 1..n |-> TaskRecord(j, f[j][1], f[j][2], f[j][3], 0)] :
                f \in [1..n -> InitTaskTitles \X (0..np) \X BOOLEAN] }
            : n \in 0..MaxInitTasks }

ProjectIds == {projects[j].id : j \in 1..Len(projects)}

\* POST databases/{projects_db_id}/query with a title "contains" filter
QueryProjects(frag) ==
    SelectSeq(projects, LAMBDA p : Contains(PlainText(p.title), frag))

\* POST databases/{tasks_db_id}/query, title "contains" filter; archived
\* records are not returned
QueryTasksByName(frag) ==
    SelectSeq(tasks, LAMBDA t : ~t.archived /\ Contains(PlainText(t.title), frag))

\* POST databases/{tasks_db_id}/query, relation "contains" filter
QueryTasksByProject(pid) ==
    SelectSeq(tasks, LAMBDA t : ~t.archived /\ t.project = pid)

\* POST pages with parent tasks_db_id
RemoteCreateTask(o, d, pid) ==
    IF Accepted(o)
    THEN Append(tasks, TaskRecord(Len(tasks) + 1, <<Text(TaskName(d))>>, pid, FALSE, d))
    ELSE tasks

\* POST pages with parent projects_db_id
RemoteCreateProject(o, title, due) ==
    IF Accepted(o)
    THEN Append(projects, [id |-> Len(projects) + 1, title |-> title, due |-> due])
    ELSE projects

\* variant: the record is deleted instead of flagged
RemoteArchive_Delete(o, tid) ==
    IF Accepted(o) THEN SelectSeq(tasks, LAMBDA t : t.id # tid) ELSE tasks

\* PATCH pages/{task_id} {"archived": true}
RemoteArchive(o, tid) ==
    IF Accepted(o)
    THEN [j \in 1..Len(tasks) |->
            IF tasks[j].id = tid THEN [tasks[j] EXCEPT !.archived = TRUE] ELSE tasks[j]]
    ELSE tasks

\* variant: the payload also carries the Name property
RemotePatchDue_WithName(o, pid, due) ==
    IF Accepted(o)
    THEN [j \in 1..Len(projects) |->
            IF projects[j].id = pid
            THEN [projects[j] EXCEPT !.due = due, !.title = <<>>]
            ELSE projects[j]]
    ELSE projects

\* PATCH pages/{project_id} {"properties": {"Due Date": ...}}
RemotePatchDue(o, pid, due) ==
    IF Accepted(o)
    THEN [j \in 1..Len(projects) |->
            IF projects[j].id = pid THEN [projects[j] EXCEPT !.due = due] ELSE projects[j]]
    ELSE projects

(* ----------------------------- requests ------------------------------- *)
\* the answers the remote can give to a request carrying the script's token
Answers ==
    IF env["NOTION_TOKEN"] = "set"
    THEN remote \cap Outcomes
    ELSE remote \cap Unauthorized

Request(kind, target, pid) == [kind |-> kind, target |-> target, project |-> pid]

\* a blocking requests.get/post/patch call is entered
Issue(req) ==
    /\ inflight' = Append(inflight, req)
    /\ log' = Append(log, req)

\* the blocking call returns
Returned ==
    /\ inflight # <<>>
    /\ inflight' = Tail(inflight)
    /\ log' = log

\* identity, find: the answers to the identity check and the project query;
\* found: the ids in the project query's result list; answers: the answers to
\* the creation requests, in order; failures: steps that did not succeed
\* patches: the answers to the archive patches, in order; unreadable: title
\* reads of the archiver that raised; create, timeline: the answers to the
\* project creation and to the due-date patch; raised: the exception that
\* left run_automation or the constructor, at: where
InitHist ==
    [identity |-> NoAnswer, find |-> NoAnswer, found |-> <<>>, answers |-> <<>>,
     failures |-> 0, patches |-> <<>>, unreadable |-> 0, create |-> NoAnswer,
     timeline |-> NoAnswer, raised |-> "none", at |-> "none"]

\* the step answered with o did not succeed
Failure(o) == IF Accepted(o) THEN 0 ELSE 1

\* the state of a process that has just been started
Started ==
    /\ env = [v \in EnvNames(script) |-> "unset"]
    /\ database_ids = {}
    /\ db = "none"
    /\ prop = 0
    /\ pc = "start"
    /\ inflight = <<>>
    /\ log = <<>>
    /\ project_id = NoProject
    /\ results = <<>>
    /\ k = 0
    /\ archived_count = 0
    /\ i = 0
    /\ added_count = 0
    /\ failed_count = 0
    /\ tasks_success = Unset
    /\ timeline_success = Unset
    /\ result = Unset
    /\ summary = <<>>
    /\ exitCode = Running
    /\ hist = InitHist

\* the workspace a script is first started against
Workspace ==
    /\ script \in Scripts
    /\ projects \in InitProjectSeqs
    /\ tasks \in InitTaskSeqs(Len(projects))
    \* the enhancer reads no record of either collection, the templates
    \* read no task
    /\ script = "enhancer" => (projects = <<>> /\ tasks = <<>>)
    /\ script = "template" => tasks = <<>>
    /\ runs = 1
    /\ past = <<>>

\* a workspace with at most the script's project and one task linked to it
SmallWorkspace ==
    /\ script \in Scripts
    /\ projects \in {<<>>, <<ProjectRecord(1, ProjectTitle(script))>>}
    /\ tasks \in {<<>>} \cup
                 {<<TaskRecord(1, t, Len(projects), FALSE, 0)>> : t \in InitTaskTitles}
    /\ script = "enhancer" => (projects = <<>> /\ tasks = <<>>)
    /\ runs = 1
    /\ past = <<>>

\* a workspace with at most the script's project and up to MaxLinkedTasks
\* tasks linked to it
LinkedWorkspace ==
    /\ script \in Scripts
    /\ projects \in {<<>>, <<ProjectRecord(1, ProjectTitle(script))>>}
    /\ tasks \in UNION {
          { [j \in 1..n |-> TaskRecord(j, f[j], Len(projects), FALSE, 0)] :
              f \in [1..n -> InitTaskTitles] } : n \in 0..MaxLinkedTasks }
    /\ script \in {"enhancer", "template"} => tasks = <<>>
    /\ script = "enhancer" => projects = <<>>
    /\ runs = 1
    /\ past = <<>>

\* one run; every call ends with a status or a RequestException
Init ==
    /\ Workspace
    /\ remote = Outcomes
    /\ Started

\* one run in which a call can also be interrupted or raise another exception
InitFaults ==
    /\ LinkedWorkspace
    /\ remote = Outcomes \cup Faults
    /\ Started

\* up to MaxRuns runs of the script against the same workspace, every call
\* answered with 200 or 400
InitRuns ==
    /\ SmallWorkspace
    /\ remote = {200, 400}
    /\ Started

(* --------------------------- construction ----------------------------- *)
\* all([self.token, self.projects_db_id, self.tasks_db_id])
ConfigComplete(e) ==
    /\ e["NOTION_TOKEN"] = "set"
    /\ e["PROJECTS_DATABASE_ID"] = "set"
    /\ e["TASKS_DATABASE_ID"] = "set"

\* main(): the automator is constructed. A missing identifier is
\* sys.exit(1) in main.py and website_project_automation.py; the templates
\* raise ValueError, which main() prints before it returns normally.
Construct ==
    /\ pc = "start"
    /\ script # "enhancer"
    /\ \E e \in [EnvNames(script) -> EnvValues] :
        /\ env' = e
        /\ IF ConfigComplete(e)
           THEN /\ pc' = IF script = "template" THEN "create_project" ELSE "test_connection"
                /\ exitCode' = exitCode
                /\ hist' = hist
           ELSE /\ pc' = "exited"
                /\ exitCode' = IF script = "template" THEN 0 ELSE 1
                /\ hist' = IF script = "template"
                           THEN [hist EXCEPT !.raised = "ValueError", !.at = pc]
                           ELSE hist
    /\ UNCHANGED <<enh, store, net, script, remote, runs, past, project_id, results, k,
                   archived_count, i, added_count, failed_count, tasks_success,
                   timeline_success, result, summary>>

(* -------------------------- test_connection --------------------------- *)
TestConnectionCall ==
    /\ pc = "test_connection"
    /\ Issue(Request("identity", 0, NoProject))
    /\ pc' = "test_connection_wait"
    /\ UNCHANGED <<enh, store, hist, script, remote, runs, past, env, project_id, results, k,
                   archived_count, i, added_count, failed_count, tasks_success,
                   timeline_success, result, summary, exitCode>>

\* variant: any 2xx status passes
ConnectionOk_Any2xx(o) == Accepted(o)

\* test_connection: if response.status_code == 200
ConnectionOk(o) == o = 200

\* status 200: True; any other status or an exception: False, and
\* run_automation returns False
TestConnectionReturn ==
    /\ pc = "test_connection_wait"
    /\ Returned
    /\ \E o \in Answers :
        /\ hist' = [hist EXCEPT !.identity = o, !.failures = @ + Failure(o)]
        /\ IF ConnectionOk(o)
           THEN pc' = "find_project" /\ result' = result
           ELSE pc' = "returned" /\ result' = "False"
    /\ UNCHANGED <<enh, store, script, remote, runs, past, env, project_id, results, k,
                   archived_count, i, added_count, failed_count, tasks_success,
                   timeline_success, summary, exitCode>>

PyBool(b) == IF b THEN "True" ELSE "False"

\* the title fragment the script's project query filters on
Fragment(sc) == IF sc = "website" THEN WebsiteFragment ELSE TradingFragment

\* the due date the script patches the project with
TimelineDate(sc) == IF sc = "website" THEN "2025-07-20" ELSE "2025-08-31"

(* ------------- find_trading_project / find_website_project ------------ *)
FindProjectCall ==
    /\ pc = "find_project"
    /\ Issue(Request("query_projects", 0, NoProject))
    /\ pc' = "find_project_wait"
    /\ UNCHANGED <<enh, store, hist, script, remote, runs, past, env, project_id, results, k,
                   archived_count, i, added_count, failed_count, tasks_success,
                   timeline_success, result, summary, exitCode>>

\* variant: a failed query falls back to a fixed project id
ResolveProject_Fallback(o, res) ==
    IF o = 200 /\ res # <<>> /\ TitleReadable(res[1]) THEN res[1].id ELSE 1

\* what the resolver returns for the answer (status o, result list res);
\* reading the first record's title for the log line raises when the title
\* is empty or starts with a mention, and the except branch returns None
ResolveProject(o, res) ==
    IF o = 200
    THEN IF res # <<>>
         THEN IF TitleReadable(res[1]) THEN res[1].id ELSE NoProject
         ELSE NoProject
    ELSE NoProject

\* variant: the run goes on without a project id
Proceeds_Always(pid) == TRUE

\* run_automation: "if not project_id" stops the run
Proceeds(pid) == pid # NoProject

FindProjectReturn ==
    /\ pc = "find_project_wait"
    /\ Returned
    /\ \E o \in Answers :
        LET res == IF o = 200 THEN QueryProjects(Fragment(script)) ELSE <<>>
            pid == ResolveProject(o, res)
        IN  /\ project_id' = pid
            /\ hist' = [hist EXCEPT !.find = o,
                                    !.found = [j \in 1..Len(res) |-> res[j].id],
                                    !.failures = IF pid = NoProject THEN @ + 1 ELSE @]
            /\ IF Proceeds(pid)
               THEN pc' = "archive_query" /\ result' = result
               ELSE pc' = "returned" /\ result' = "False"
    /\ UNCHANGED <<enh, store, script, remote, runs, past, env, results, k,
                   archived_count, i, added_count, failed_count, tasks_success,
                   timeline_success, summary, exitCode>>

(* ----------- cleanup_test_tasks / archive_old_website_tasks ----------- *)
ArchiveQueryCall ==
    /\ pc = "archive_query"
    /\ Issue(Request("query_tasks", 0, IF script = "website" THEN project_id ELSE NoProject))
    /\ pc' = "archive_query_wait"
    /\ UNCHANGED <<enh, store, hist, script, remote, runs, past, env, project_id, results, k,
                   archived_count, i, added_count, failed_count, tasks_success,
                   timeline_success, result, summary, exitCode>>

\* variant: cleanup_test_tasks filters on the project relation
ArchiveCandidates_ByProject == QueryTasksByProject(project_id)

\* the records the archiver's query matches
ArchiveCandidates ==
    IF script = "website" THEN QueryTasksByProject(project_id)
    ELSE QueryTasksByName(TestTaskFragment)

\* status 200 with results: the loop starts; anything else: the archiver
\* returns and run_automation goes on to the task batch
ArchiveQueryReturn ==
    /\ pc = "archive_query_wait"
    /\ Returned
    /\ \E o \in Answers :
        /\ hist' = [hist EXCEPT !.failures = @ + Failure(o)]
        /\ IF o = 200 /\ ArchiveCandidates # <<>>
           THEN /\ results' = ArchiveCandidates
                /\ k' = 1
                /\ pc' = "archive"
                /\ i' = i
           ELSE /\ pc' = "add_tasks"
                /\ i' = 1
                /\ UNCHANGED <<results, k>>
    /\ UNCHANGED <<enh, store, script, remote, runs, past, env, project_id,
                   archived_count, added_count, failed_count, tasks_success,
                   timeline_success, result, summary, exitCode>>

\* variant: the id is taken from the first record
PatchTarget_First(res, n) == res[1].id

\* task_id = task['id'] of the record the loop is at
PatchTarget(res, n) == res[n].id

\* one loop iteration up to the patch: the title is read first, and when
\* that raises, the except branch ends the archiver
ArchiveCall ==
    /\ pc = "archive"
    /\ IF TitleReadable(results[k])
       THEN /\ Issue(Request("archive", PatchTarget(results, k), NoProject))
            /\ pc' = "archive_wait"
            /\ i' = i
            /\ hist' = hist
       ELSE /\ pc' = "add_tasks"
            /\ i' = 1
            /\ hist' = [hist EXCEPT !.failures = @ + 1, !.unreadable = @ + 1]
            /\ UNCHANGED net
    /\ UNCHANGED <<enh, store, script, remote, runs, past, env, project_id, results, k,
                   archived_count, added_count, failed_count, tasks_success,
                   timeline_success, result, summary, exitCode>>

\* variant: the loop is left at the first patch that is not answered 200
ArchiverGoesOn_Only200(o) == o = 200

\* the for loop goes on after any status; requests.patch raising ends it
ArchiverGoesOn(o) == o # Exc

ArchiveReturn ==
    /\ pc = "archive_wait"
    /\ Returned
    /\ \E o \in Answers :
        /\ tasks' = RemoteArchive(o, inflight[1].target)
        /\ hist' = [hist EXCEPT !.failures = @ + Failure(o),
                                !.patches = Append(@, o)]
        /\ archived_count' =
              IF o = 200 /\ script = "website" THEN archived_count + 1 ELSE archived_count
        /\ IF ArchiverGoesOn(o) /\ k < Len(results)
           THEN k' = k + 1 /\ pc' = "archive" /\ i' = i
           ELSE k' = k /\ pc' = "add_tasks" /\ i' = 1
    /\ UNCHANGED <<enh, projects, script, remote, runs, past, env, project_id, results,
                   added_count, failed_count, tasks_success,
                   timeline_success, result, summary, exitCode>>

(* ---- add_tasks_to_project / add_website_tasks / template task loop --- *)
\* variant: the request is sent without waiting for its response
AddTaskCall_NoWait ==
    /\ pc = "add_tasks"
    /\ i <= BatchLen
    /\ Issue(Request("create_task", i, project_id))
    /\ i' = i + 1
    /\ pc' = "add_tasks"
    /\ UNCHANGED <<enh, store, hist, script, remote, runs, past, env, project_id, results, k,
                   archived_count, added_count, failed_count, tasks_success,
                   timeline_success, result, summary, exitCode>>

AddTaskCall ==
    /\ pc = "add_tasks"
    /\ Issue(Request("create_task", i, project_id))
    /\ pc' = "add_tasks_wait"
    /\ UNCHANGED <<enh, store, hist, script, remote, runs, past, env, project_id, results, k,
                   archived_count, i, added_count, failed_count, tasks_success,
                   timeline_success, result, summary, exitCode>>

\* variant: every answered request counts as added
CountsAsAdded_AnyStatus(sc, o) == o # Exc

\* variant: create_task of the templates does not call raise_for_status()
CountsAsAdded_NoRaiseForStatus(sc, o) ==
    IF sc = "template" THEN o # Exc ELSE o = 200

\* whether the script counts the task as added: status 200 in main.py and
\* website_project_automation.py; create_task of the templates returns True
\* unless requests raised or raise_for_status() raised
CountsAsAdded(sc, o) ==
    IF sc = "template" THEN o # Exc /\ ~RaisesForStatus(o) ELSE o = 200

\* variant: the except branch does not count the task
FailedAfter_DropExc(sc, failed, o) ==
    IF sc = "template" THEN failed
    ELSE IF o = 200 \/ o = Exc THEN failed ELSE failed + 1

\* failed_count after the answer o; the templates keep no failed counter
FailedAfter(sc, failed, o) ==
    IF sc = "template" THEN failed
    ELSE IF o = 200 THEN failed ELSE failed + 1

\* variant: a failed task ends the loop
NextTask_Abort(j, o) == IF o = Exc \/ RaisesForStatus(o) THEN BatchLen + 1 ELSE j + 1

\* variant: a transport error is retried
NextTask_Retry(j, o) == IF o = Exc THEN j ELSE j + 1

\* the descriptor handled after descriptor j was answered with o
NextTask(j, o) == j + 1

\* the summary lines printed after the loop
Summary(sc, added, failed) ==
    IF sc = "template" THEN <<added, BatchLen - added, BatchLen>>
    ELSE <<added, failed, BatchLen>>

\* variant: run_automation returns when the batch had a failure
AfterBatch_StopOnFailure(ok) == IF ok = "True" THEN "timeline" ELSE "returned"

\* run_automation: step 5 follows step 4 whatever tasks_success is
AfterBatch(ok) == "timeline"

AddTaskReturn ==
    /\ pc = "add_tasks_wait"
    /\ Returned
    /\ \E o \in Answers :
        LET a == IF CountsAsAdded(script, o) THEN added_count + 1 ELSE added_count
            f == FailedAfter(script, failed_count, o)
        IN  /\ tasks' = RemoteCreateTask(o, i, project_id)
            /\ hist' = [hist EXCEPT !.answers = Append(@, o),
                                    !.failures = @ + Failure(o)]
            /\ added_count' = a
            /\ failed_count' = f
            /\ i' = NextTask(i, o)
            /\ IF NextTask(i, o) <= BatchLen
               THEN /\ pc' = "add_tasks"
                    /\ UNCHANGED <<summary, tasks_success, result>>
               ELSE /\ summary' = Summary(script, a, f)
                    /\ IF script = "template"
                       THEN /\ result' = PyBool(a = BatchLen)
                            /\ pc' = "returned"
                            /\ tasks_success' = tasks_success
                       ELSE /\ tasks_success' = PyBool(f = 0)
                            /\ pc' = AfterBatch(PyBool(f = 0))
                            /\ result' = result
    /\ UNCHANGED <<enh, projects, script, remote, runs, past, env, project_id, results, k,
                   archived_count, timeline_success, exitCode>>

(* ----------------------- update_project_timeline ---------------------- *)
\* variant: run_automation patches the timeline before the task batch
TimelineCall_BeforeBatch ==
    /\ pc = "add_tasks"
    /\ i = 1
    /\ Issue(Request("timeline", project_id, project_id))
    /\ pc' = "timeline_wait"
    /\ UNCHANGED <<enh, store, hist, script, remote, runs, past, env, project_id, results, k,
                   archived_count, i, added_count, failed_count, tasks_success,
                   timeline_success, result, summary, exitCode>>

TimelineCall ==
    /\ pc = "timeline"
    /\ Issue(Request("timeline", project_id, project_id))
    /\ pc' = "timeline_wait"
    /\ UNCHANGED <<enh, store, hist, script, remote, runs, past, env, project_id, results, k,
                   archived_count, i, added_count, failed_count, tasks_success,
                   timeline_success, result, summary, exitCode>>

\* variant: a failure of the archive step also makes the run fail
RunResult_WithCleanup(ts, tl) ==
    PyBool(ts = "True" /\ tl = "True" /\ hist.failures = 0)

\* variant: run_automation returns timeline_success
RunResult_TimelineOnly(ts, tl) == tl

\* run_automation: return tasks_success and timeline_success
RunResult(ts, tl) == PyBool(ts = "True" /\ tl = "True")

\* variant: the timeline patch is sent again after a transport error
AfterTimeline_RetryOnError(o) == IF o = Exc THEN "timeline" ELSE "returned"

\* update_project_timeline returns after its one request, whatever the
\* answer, and run_automation reaches its return statement
AfterTimeline(o) == "returned"

\* True on status 200; run_automation then returns
\* tasks_success and timeline_success
TimelineReturn ==
    /\ pc = "timeline_wait"
    /\ Returned
    /\ \E o \in Answers :
        /\ projects' = RemotePatchDue(o, project_id, TimelineDate(script))
        /\ timeline_success' = PyBool(o = 200)
        /\ hist' = [hist EXCEPT !.failures = @ + Failure(o), !.timeline = o]
        /\ result' = RunResult(tasks_success, PyBool(o = 200))
        /\ pc' = AfterTimeline(o)
    /\ UNCHANGED <<enh, tasks, script, remote, runs, past, env, project_id, results, k,
                   archived_count, i, added_count, failed_count, tasks_success,
                   summary, exitCode>>

(* --------------------- templates: create_project ---------------------- *)
CreateProjectCall ==
    /\ pc = "create_project"
    /\ Issue(Request("create_project", 0, NoProject))
    /\ pc' = "create_project_wait"
    /\ UNCHANGED <<enh, store, hist, script, remote, runs, past, env, project_id, results, k,
                   archived_count, i, added_count, failed_count, tasks_success,
                   timeline_success, result, summary, exitCode>>

\* raise_for_status() passed: result['id'], the id of the new record;
\* RequestException: None, and run_automation returns False
\* variant: raise_for_status() is not called
ProjectCreated_NoStatusCheck(o) == o # Exc
\* variant: the status is compared with 200
ProjectCreated_Only200(o) == o = 200

\* create_project returned an id: no RequestException was raised
ProjectCreated(o) == o # Exc /\ ~RaisesForStatus(o)

CreateProjectReturn ==
    /\ pc = "create_project_wait"
    /\ Returned
    /\ \E o \in Answers :
        /\ projects' = RemoteCreateProject(o, TradingTitle, "2025-08-31")
        /\ hist' = [hist EXCEPT !.failures = @ + Failure(o), !.create = o]
        /\ IF ProjectCreated(o)
           THEN /\ project_id' = Len(projects) + 1
                /\ pc' = "add_tasks"
                /\ i' = 1
                /\ result' = result
           ELSE /\ project_id' = NoProject
                /\ pc' = "returned"
                /\ result' = "False"
                /\ i' = i
    /\ UNCHANGED <<enh, tasks, script, remote, runs, past, env, results, k,
                   archived_count, added_count, failed_count, tasks_success,
                   timeline_success, summary, exitCode>>

(* ------------------------------- main() ------------------------------- *)
\* main.py, website_project_automation.py: sys.exit(0 if success else 1);
\* the templates' main() drops the value and returns
ExitCodeFor(sc, res) ==
    IF sc = "template" THEN 0
    ELSE IF res = "True" THEN 0 ELSE 1

MainExit ==
    /\ pc = "returned"
    /\ exitCode' = ExitCodeFor(script, result)
    /\ pc' = "exited"
    /\ UNCHANGED <<enh, store, net, hist, script, remote, runs, past, env, project_id, results, k,
                   archived_count, i, added_count, failed_count, tasks_success,
                   timeline_success, result, summary>>

(* ---------------------- MissionControlEnhancer ------------------------ *)
\* the lengths of new_properties in enhance_projects_database,
\* enhance_tasks_database and enhance_finances_database
ProjectsProperties == 6
TasksProperties == 6
FinancesProperties == 3

NumProperties(d) ==
    IF d = "projects" THEN ProjectsProperties
    ELSE IF d = "tasks" THEN TasksProperties
    ELSE FinancesProperties

\* run_enhancement calls the enhance_* methods in this order
NextDatabase(d) ==
    IF d = "projects" THEN "tasks"
    ELSE IF d = "tasks" THEN "finances"
    ELSE "none"

SampleTitle == <<Text(<<"Mission", "Control", "Test", "Project">>)>>

\* __init__ builds the client from NOTION_TOKEN and reads NOTION_PAGE_ID;
\* nothing is validated
EnhancerConstruct ==
    /\ pc = "start"
    /\ script = "enhancer"
    /\ \E e \in [EnvNames(script) -> EnvValues] : env' = e
    /\ pc' = "search"
    /\ UNCHANGED <<store, net, hist, enh, script, remote, runs, past, automator, exitCode>>

\* find_existing_databases: notion.search
SearchCall ==
    /\ pc = "search"
    /\ Issue(Request("search", 0, NoProject))
    /\ pc' = "search_wait"
    /\ UNCHANGED <<store, hist, enh, script, remote, runs, past, env, automator, exitCode>>

\* the client raises on a rejected request; find_existing_databases has no
\* try, so the exception ends the process. Otherwise 'projects' is always
\* in database_ids (manual override), the others when a database of that
\* name was found.
SearchReturn ==
    /\ pc = "search_wait"
    /\ Returned
    /\ \E o \in Answers :
        /\ hist' = [hist EXCEPT !.failures = @ + Failure(o)]
        /\ IF Accepted(o)
           THEN /\ \E found \in SUBSET {"tasks", "finances"} :
                      database_ids' = {"projects"} \cup found
                /\ db' = "projects"
                /\ prop' = 1
                /\ pc' = "enhance"
                /\ exitCode' = exitCode
           ELSE /\ pc' = "exited"
                /\ exitCode' = 1
                /\ UNCHANGED enh
    /\ UNCHANGED <<store, script, remote, runs, past, env, automator>>

\* where run_enhancement goes when enhance_<d>_database returns
AfterDatabase(d) ==
    IF NextDatabase(d) = "none"
    THEN /\ pc' = "create_page"
         /\ db' = "none"
         /\ prop' = 0
    ELSE /\ pc' = "enhance"
         /\ db' = NextDatabase(d)
         /\ prop' = 1

\* enhance_<db>_database: returns at once when the database is unknown,
\* else updates the next property
EnhanceCall ==
    /\ pc = "enhance"
    /\ IF db \in database_ids
       THEN /\ Issue(Request("update_database", prop, NoProject))
            /\ pc' = "enhance_wait"
            /\ UNCHANGED <<db, prop>>
       ELSE /\ AfterDatabase(db)
            /\ UNCHANGED net
    /\ UNCHANGED <<store, hist, database_ids, script, remote, runs, past, env, automator, exitCode>>

\* the try is inside the loop: a rejected property does not end it
PropertyLoopGoesOn_TryPerProperty(o, p, d) == p < NumProperties(d)

\* the loop over new_properties is inside the try: it goes on to the next
\* property when the update returned and a property is left
PropertyLoopGoesOn(o, p, d) == Accepted(o) /\ p < NumProperties(d)

\* an exception ends the loop over new_properties
EnhanceReturn ==
    /\ pc = "enhance_wait"
    /\ Returned
    /\ \E o \in Answers :
        /\ hist' = [hist EXCEPT !.failures = @ + Failure(o)]
        /\ IF PropertyLoopGoesOn(o, prop, db)
           THEN /\ prop' = prop + 1
                /\ pc' = "enhance"
                /\ db' = db
           ELSE AfterDatabase(db)
    /\ UNCHANGED <<store, database_ids, script, remote, runs, past, env, automator, exitCode>>

\* create_mission_control_page: nothing is sent without NOTION_PAGE_ID
CreatePageCall ==
    /\ pc = "create_page"
    /\ IF env["NOTION_PAGE_ID"] = "set"
       THEN /\ Issue(Request("create_page", 0, NoProject))
            /\ pc' = "create_page_wait"
       ELSE /\ pc' = "sample_retrieve"
            /\ UNCHANGED net
    /\ UNCHANGED <<store, hist, enh, script, remote, runs, past, env, automator, exitCode>>

CreatePageReturn ==
    /\ pc = "create_page_wait"
    /\ Returned
    /\ \E o \in Answers : hist' = [hist EXCEPT !.failures = @ + Failure(o)]
    /\ pc' = "sample_retrieve"
    /\ UNCHANGED <<store, enh, script, remote, runs, past, env, automator, exitCode>>

\* add_sample_data: databases.retrieve, then pages.create
SampleRetrieveCall ==
    /\ pc = "sample_retrieve"
    /\ Issue(Request("retrieve_database", 0, NoProject))
    /\ pc' = "sample_retrieve_wait"
    /\ UNCHANGED <<store, hist, enh, script, remote, runs, past, env, automator, exitCode>>

SampleRetrieveReturn ==
    /\ pc = "sample_retrieve_wait"
    /\ Returned
    /\ \E o \in Answers :
        /\ hist' = [hist EXCEPT !.failures = @ + Failure(o)]
        /\ pc' = IF Accepted(o) THEN "sample_create" ELSE "enhanced"
    /\ UNCHANGED <<store, enh, script, remote, runs, past, env, automator, exitCode>>

SampleCreateCall ==
    /\ pc = "sample_create"
    /\ Issue(Request("create_sample", 0, NoProject))
    /\ pc' = "sample_create_wait"
    /\ UNCHANGED <<store, hist, enh, script, remote, runs, past, env, automator, exitCode>>

SampleCreateReturn ==
    /\ pc = "sample_create_wait"
    /\ Returned
    /\ \E o \in Answers :
        /\ hist' = [hist EXCEPT !.failures = @ + Failure(o)]
        /\ projects' = RemoteCreateProject(o, SampleTitle, "in 14 days")
    /\ pc' = "enhanced"
    /\ UNCHANGED <<tasks, enh, script, remote, runs, past, env, automator, exitCode>>

\* the summary is printed and the script ends
EnhancerExit ==
    /\ pc = "enhanced"
    /\ pc' = "exited"
    /\ exitCode' = 0
    /\ UNCHANGED <<store, net, hist, enh, script, remote, runs, past, env, automator>>

Next ==
    \/ Construct
    \/ TestConnectionCall
    \/ TestConnectionReturn
    \/ FindProjectCall
    \/ FindProjectReturn
    \/ ArchiveQueryCall
    \/ ArchiveQueryReturn
    \/ ArchiveCall
    \/ ArchiveReturn
    \/ AddTaskCall
    \/ AddTaskReturn
    \/ TimelineCall
    \/ TimelineReturn
    \/ CreateProjectCall
    \/ CreateProjectReturn
    \/ MainExit
    \/ EnhancerConstruct
    \/ SearchCall
    \/ SearchReturn
    \/ EnhanceCall
    \/ EnhanceReturn
    \/ CreatePageCall
    \/ CreatePageReturn
    \/ SampleRetrieveCall
    \/ SampleRetrieveReturn
    \/ SampleCreateCall
    \/ SampleCreateReturn
    \/ EnhancerExit

Spec == Init /\ [][Next]_vars

(* --------------------- interrupts and other exceptions ---------------- *)
\* the status of a process that ends by an uncaught KeyboardInterrupt
SigintStatus == 130

\* variant: the handler prints and returns, as the templates' handlers do
InterruptStatus_Zero(sc) == 0

\* main.py, website_project_automation.py: except KeyboardInterrupt:
\* sys.exit(1); the templates' main() and the enhancer do not catch it
InterruptStatus(sc) == IF sc \in {"main", "website"} THEN 1 ELSE SigintStatus

\* Ctrl-C while the script runs, in a pending call or between two calls:
\* KeyboardInterrupt passes every except Exception / except
\* RequestException of the steps and reaches main(); the answer of a
\* pending request is never read
Interrupted ==
    /\ Interrupt \in remote
    /\ pc \notin {"start", "exited"}
    /\ inflight' = <<>>
    /\ log' = log
    /\ pc' = "exited"
    /\ exitCode' = InterruptStatus(script)
    /\ hist' = [hist EXCEPT !.raised = "KeyboardInterrupt", !.at = pc]
    /\ UNCHANGED <<store, enh, script, remote, runs, past, env, automator>>

\* templates: create_project and create_task catch RequestException only;
\* any other Exception raised by the call leaves run_automation, main()
\* prints "Unexpected error" and returns
UnexpectedError ==
    /\ Unexpected \in remote
    /\ script = "template"
    /\ pc \in {"create_project_wait", "add_tasks_wait"}
    /\ Returned
    /\ pc' = "exited"
    /\ exitCode' = 0
    /\ hist' = [hist EXCEPT !.raised = "Exception", !.at = pc]
    /\ UNCHANGED <<store, enh, script, remote, runs, past, env, automator>>

NextFaults == Next \/ Interrupted \/ UnexpectedError

SpecFaults == InitFaults /\ [][NextFaults]_vars

(* ------------------------------ re-runs ------------------------------- *)
\* the script is started again once the previous process has ended; only
\* the remote store is kept
Rerun ==
    /\ pc = "exited"
    /\ runs < MaxRuns
    /\ runs' = runs + 1
    /\ past' = Append(past, result)
    /\ env' = [v \in EnvNames(script) |-> "unset"]
    /\ database_ids' = {}
    /\ db' = "none"
    /\ prop' = 0
    /\ pc' = "start"
    /\ inflight' = <<>>
    /\ log' = <<>>
    /\ project_id' = NoProject
    /\ results' = <<>>
    /\ k' = 0
    /\ archived_count' = 0
    /\ i' = 0
    /\ added_count' = 0
    /\ failed_count' = 0
    /\ tasks_success' = Unset
    /\ timeline_success' = Unset
    /\ result' = Unset
    /\ summary' = <<>>
    /\ exitCode' = Running
    /\ hist' = InitHist
    /\ UNCHANGED <<store, script, remote>>

NextRuns == Next \/ Rerun

SpecRuns == InitRuns /\ [][NextRuns]_vars

(* ===================================================================== *)
(*                              Properties                               *)
(* ===================================================================== *)
\* the task loop has ended and its summary was printed
BatchFinished == summary # <<>>

\* the creation request was rejected with 4xx/5xx or failed in transport
Rejected(o) == o = Exc \/ RaisesForStatus(o)

NumAnswers(S) == Cardinality({n \in 1..Len(hist.answers) : hist.answers[n] \in S})
NumRejected == Cardinality({n \in 1..Len(hist.answers) : Rejected(hist.answers[n])})

\* positions in the log of the requests of a kind (and target)
LogOfKind(kind) == {n \in 1..Len(log) : log[n].kind = kind}
LogOfTarget(kind, t) == {n \in LogOfKind(kind) : log[n].target = t}

\* the Task records created by the run
CreatedTasks == {n \in 1..Len(tasks) : tasks[n].desc # 0}

\* C1: when the task batch finishes, succeeded + failed equals the number of
\* descriptors, for every sequence of answers (200, another status, exception)
C1_CountsCoverBatch ==
    BatchFinished =>
        /\ summary[1] + summary[2] = BatchLen
        /\ summary[3] = BatchLen
        /\ script # "template" => added_count + failed_count = BatchLen

C1_Witness ==
    /\ BatchFinished
    /\ script = "main"
    /\ \E n \in 1..BatchLen : hist.answers[n] = Exc
    /\ \E n \in 1..BatchLen : hist.answers[n] = 201
    /\ summary[1] > 0

C3_ContinueOnError ==
    /\ added_count + NumRejected <= Len(hist.answers)
    /\ script # "template" => failed_count >= NumRejected
    /\ BatchFinished => summary[2] >= NumRejected
    /\ (i >= 1 /\ pc \notin {"add_tasks", "add_tasks_wait"}) =>
          \A d \in 1..BatchLen : LogOfTarget("create_task", d) # {}

C3_Witness ==
    /\ BatchFinished
    /\ hist.answers[1] = 400
    /\ hist.answers[2] = Exc
    /\ \A d \in 1..BatchLen : LogOfTarget("create_task", d) # {}
    /\ summary[2] >= 2

\* C4: a project query answered 200 with no results makes the resolver return
\* None, and the run ends without any archive, creation or timeline request
\* and without a Task record created
C4_NotFoundStops ==
    (hist.find = 200 /\ hist.found = <<>>) =>
        /\ project_id = NoProject
        /\ pc \in {"returned", "exited"}
        /\ result = "False"
        /\ \A n \in 1..Len(log) : log[n].kind \in {"identity", "query_projects"}
        /\ CreatedTasks = {}

C4_Witness ==
    /\ hist.find = 200
    /\ hist.found = <<>>
    /\ Len(projects) > 0
    /\ pc = "exited"

\* C5: a project query answered 200 with one or more records makes the
\* resolver return the id of the first record, whatever the records hold
C5_FirstResultReturned ==
    (hist.find = 200 /\ hist.found # <<>>) => project_id = hist.found[1]

C7_Sequential ==
    /\ Len(inflight) <= 1
    /\ \A d \in 1..BatchLen : \A n \in LogOfTarget("create_task", d) :
          /\ Cardinality({m \in LogOfKind("create_task") : m < n}) = d - 1
          /\ Len(hist.answers) >= d - 1
    /\ Cardinality(LogOfKind("create_task")) <= Len(hist.answers) + 1
    /\ Cardinality(LogOfKind("create_task")) = Len(hist.answers) + 1 =>
          (inflight # <<>> /\ inflight[1].kind = "create_task")

C7_Witness ==
    /\ pc = "add_tasks_wait"
    /\ i = BatchLen
    /\ Len(inflight) = 1
    /\ Len(hist.answers) = BatchLen - 1

\* C8: nothing is retried: one creation request per descriptor, and at most
\* one identity check, project query, project creation, archive query,
\* archive patch per record and timeline patch
C8_NoRetry ==
    /\ \A d \in 1..BatchLen : Cardinality(LogOfTarget("create_task", d)) <= 1
    /\ BatchFinished =>
          \A d \in 1..BatchLen : Cardinality(LogOfTarget("create_task", d)) = 1
    /\ \A n \in LogOfKind("create_task") : log[n].target \in 1..BatchLen
    /\ \A kind \in {"identity", "query_projects", "create_project", "query_tasks", "timeline"} :
          Cardinality(LogOfKind(kind)) <= 1
    /\ \A n \in LogOfKind("archive") :
          Cardinality(LogOfTarget("archive", log[n].target)) = 1

C8_Witness ==
    /\ pc = "exited"
    /\ BatchFinished
    /\ script = "website"
    /\ hist.identity = 200
    /\ \A n \in 1..BatchLen : hist.answers[n] = Exc
    /\ timeline_success = "False"
    /\ LogOfKind("archive") # {}

\* a required identifier (all but the optional parent-page id) is missing
\* or empty
RequiredMissing ==
    \E v \in DOMAIN env \ {"NOTION_PAGE_ID"} : env[v] # "set"

\* C9: when a required identifier is missing or empty, construction fails
\* and the process ends before any remote request is issued
C9_MissingConfigStops ==
    (pc # "start" /\ RequiredMissing) => (pc = "exited" /\ log = <<>>)

\* C10: for main.py, website_project_automation.py and the templates, the
\* exit code is 0 exactly when the configuration is complete and every step
\* of the run succeeded, and 1 otherwise
C10_ExitCode ==
    (pc = "exited" /\ script # "enhancer") =>
        /\ exitCode \in {0, 1}
        /\ exitCode = 0 <=> (~RequiredMissing /\ hist.failures = 0)

\* the run ended at the identity check: run_automation returned False and
\* the identity request is the only request of the run
StoppedAtIdentity ==
    /\ pc \in {"returned", "exited"}
    /\ result = "False"
    /\ Len(log) = 1
    /\ log[1].kind = "identity"

\* C11 as stated: a non-2xx answer or an exception of the identity check
\* ends the run with False and no further request, and every 2xx answer
\* lets the run proceed
C11_Any2xxProceeds ==
    hist.identity # NoAnswer =>
        IF Accepted(hist.identity) THEN ~StoppedAtIdentity ELSE StoppedAtIdentity

\* C11, amended: the run proceeds exactly when the identity check is
\* answered with status 200; any other status (another 2xx included) or an
\* exception ends the run with False and no further request
C11_IdentityGate ==
    hist.identity # NoAnswer =>
        IF hist.identity = 200 THEN ~StoppedAtIdentity ELSE StoppedAtIdentity

C11_Witness ==
    /\ hist.identity = 201
    /\ pc = "exited"
    /\ StoppedAtIdentity
    /\ exitCode = 1

\* C12: in main.py, website_project_automation.py and the templates, an
\* exception that no step handles reaches main(), is caught there, and the
\* process exits with a non-zero code
C12_UnhandledExitsNonZero ==
    (pc = "exited" /\ script # "enhancer" /\ hist.raised # "none") =>
        exitCode \notin {0, Running}

\* the archiver call of this run has returned to run_automation
ArchiverDone == script \in {"main", "website"} /\ i >= 1

\* C13: the archiver submits exactly one archive patch for each record its
\* query returned, and its count of archived records equals the number of
\* patches answered with success and never exceeds the number of records
C13_OnePatchPerRecord ==
    ArchiverDone =>
        /\ \A n \in 1..Len(results) :
              Cardinality(LogOfTarget("archive", results[n].id)) = 1
        /\ Cardinality(LogOfKind("archive")) = Len(results)
        /\ script = "website" =>
              archived_count =
                 Cardinality({n \in 1..Len(hist.patches) : hist.patches[n] = 200})
        /\ archived_count <= Len(results)

\* the non-archived queries the script steps issue on the tasks database
LaterQueryReturns(t) ==
    \/ \E n \in 1..Len(QueryTasksByName(TestTaskFragment)) :
          QueryTasksByName(TestTaskFragment)[n].id = t.id
    \/ \E n \in 1..Len(QueryTasksByProject(t.project)) :
          QueryTasksByProject(t.project)[n].id = t.id

\* C14: a record whose archive patch was answered with success is archived
\* in the remote store and no later query of a step returns it; no archive
\* patch, of this run or of a later one, is sent for an archived record
C14_ArchivedStaysHidden ==
    /\ \A n \in 1..Len(hist.patches) :
          Accepted(hist.patches[n]) =>
              /\ tasks[results[n].id].archived
              /\ ~LaterQueryReturns(tasks[results[n].id])
    /\ \A n \in 1..Len(inflight) :
          inflight[n].kind = "archive" => ~tasks[inflight[n].target].archived
    /\ pc = "archive" => ~tasks[results[k].id].archived

\* the second run of the website script archived the tasks the first run made
C14_Witness ==
    /\ runs = 2
    /\ pc = "exited"
    /\ Len(hist.patches) >= 2
    /\ \A n \in 1..Len(hist.patches) : hist.patches[n] = 200
    /\ \E n \in 1..Len(tasks) : tasks[n].archived /\ tasks[n].desc >= 1

\* every remote call of a finished main.py / website run was answered 200:
\* nothing failed but title reads, and no answer recorded is another 2xx
AllCallsSucceeded ==
    /\ hist.failures = hist.unreadable
    /\ hist.identity = 200
    /\ hist.find = 200
    /\ \A n \in 1..Len(hist.patches) : hist.patches[n] = 200
    /\ Len(hist.answers) = BatchLen
    /\ \A n \in 1..Len(hist.answers) : hist.answers[n] = 200
    /\ hist.timeline = 200
    /\ 201 \notin remote

\* the non-archived tasks linked to the project are one per descriptor
OnePerDescriptor(pid) ==
    /\ Len(QueryTasksByProject(pid)) = BatchLen
    /\ \A d \in 1..BatchLen :
          \E n \in 1..BatchLen : QueryTasksByProject(pid)[n].desc = d

\* C15: after a run of the website script in which every remote call
\* succeeded, the non-archived tasks linked to the project are exactly one
\* per descriptor, whatever was linked before, in a first run and in a re-run
C15_ReplaceSemantics ==
    (script = "website" /\ pc = "exited" /\ AllCallsSucceeded) =>
        OnePerDescriptor(project_id)

C17_NoTasksAfterFailure ==
    script = "template" =>
        /\ Cardinality(LogOfKind("create_project")) <= 1
        /\ (hist.create # NoAnswer /\ ~Accepted(hist.create)) =>
              /\ hist.failures >= 1
              /\ project_id = NoProject
              /\ result = "False"
              /\ pc \in {"returned", "exited"}
              /\ LogOfKind("create_task") = {}

\* the step in which the creation request returns: on success the store has
\* one more project, the new one, and its id is what create_project returns;
\* otherwise the store is as before and create_project returns None
C17_CreateStep ==
    pc = "create_project_wait" =>
        IF Accepted(hist'.create)
        THEN /\ Len(projects') = Len(projects) + 1
             /\ SubSeq(projects', 1, Len(projects)) = projects
             /\ projects'[Len(projects')].title = TradingTitle
             /\ project_id' = projects'[Len(projects')].id
             /\ project_id' \notin ProjectIds
        ELSE /\ projects' = projects
             /\ project_id' = NoProject

\* C17: in the templates a rejected or failed project creation gives no id,
\* is not repeated, and ends the run before any task creation; a successful
\* one adds exactly one project record and returns its id
C17_CreateProjectOnce ==
    [][C17_CreateStep /\ C17_NoTasksAfterFailure']_vars

C17_Witness ==
    /\ script = "template"
    /\ pc = "exited"
    /\ hist.create = 400
    /\ Len(projects) = MaxInitProjects
    /\ Len(log) = 1

\* the project records whose name matches the script's name filter
NamedProjects(sc) ==
    {j \in 1..Len(projects) : Contains(PlainText(projects[j].title), Fragment(sc))}

\* C18: a script creates its project only when no project of that name
\* exists, so after any number of runs against an accepting remote the
\* store holds exactly one project record with that name
C18_OneProjectPerName ==
    (script = "template" /\ pc = "exited" /\ hist.create = 200) =>
        Cardinality(NamedProjects(script)) = 1

\* what a step may do to the remote store
StoreStep ==
    /\ Len(tasks') >= Len(tasks)
    /\ Len(projects') >= Len(projects)
    /\ \A j \in 1..Len(tasks) :
          /\ tasks'[j] = [tasks[j] EXCEPT !.archived = tasks'[j].archived]
          /\ tasks[j].archived => tasks'[j].archived
    /\ \A j \in 1..Len(projects) :
          projects'[j] = [projects[j] EXCEPT !.due = projects'[j].due]

InterruptedInBatch ==
    /\ script \in {"main", "website"}
    /\ hist.raised = "KeyboardInterrupt"
    /\ hist.at \in {"add_tasks", "add_tasks_wait"}

\* C20: an interrupt during the task batch ends the run: the process has
\* exited with code 1, no creation was requested beyond the one that was
\* pending, no timeline patch was requested, and every task the remote had
\* accepted before is still in the store
C20_InterruptStops ==
    InterruptedInBatch =>
        /\ pc = "exited"
        /\ exitCode = 1
        /\ inflight = <<>>
        /\ summary = <<>>
        /\ LogOfKind("timeline") = {}
        /\ Cardinality(LogOfKind("create_task")) <= Len(hist.answers) + 1
        /\ Cardinality(LogOfKind("create_task")) <= BatchLen
        /\ Cardinality(CreatedTasks) = NumAnswers({200, 201})

\* interrupted in the second creation call, the first task having been made
C20_Witness ==
    /\ InterruptedInBatch
    /\ hist.at = "add_tasks_wait"
    /\ hist.answers = <<200>>
    /\ Cardinality(CreatedTasks) = 1
    /\ Cardinality(LogOfKind("create_task")) = 2
    /\ exitCode = 1

\* the non-archived tasks made from descriptor d
LiveTasksOf(d) == {n \in 1..Len(tasks) : tasks[n].desc = d /\ ~tasks[n].archived}

\* main.py was run twice and run_automation returned True both times
TwoGoodRuns ==
    /\ script = "main"
    /\ runs = 2
    /\ past = <<"True">>
    /\ pc = "exited"
    /\ result = "True"

\* C21: two runs of main.py that the remote accepts in full leave two
\* non-archived tasks for each descriptor, 2N in all: the cleanup step
\* archives tasks named TEST TASK only, and creation has no dedupe key
C21_TwoRunsDouble ==
    TwoGoodRuns =>
        /\ \A d \in 1..BatchLen : Cardinality(LiveTasksOf(d)) = 2
        /\ Cardinality({n \in CreatedTasks : ~tasks[n].archived}) = 2 * BatchLen

\* both runs done, a TEST TASK record was archived on the way
C21_Witness ==
    /\ TwoGoodRuns
    /\ Len(tasks) = 2 * BatchLen + 1
    /\ tasks[1].archived
    /\ Cardinality(LiveTasksOf(BatchLen)) = 2

\* the step of run_automation a request belongs to
StepTable ==
    [kind \in {"identity", "query_projects", "query_tasks", "archive",
               "create_task", "timeline"} |->
        CASE kind = "identity" -> 1
          [] kind = "query_projects" -> 2
          [] kind = "query_tasks" -> 3
          [] kind = "archive" -> 4
          [] kind = "create_task" -> 5
          [] OTHER -> 6]

StepRank(kind) == StepTable[kind]

\* C22: main.py and the website script issue their calls in step order:
\* identity check, project query, archive query, archive patches, task
\* creations, timeline patch; a call is issued only when every earlier call
\* has returned, and a step is not entered before the steps ahead of it
C22_StepOrder ==
    script \in {"main", "website"} =>
        /\ \A n \in 1..(Len(log) - 1) :
              \/ StepRank(log[n].kind) < StepRank(log[n + 1].kind)
              \/ /\ log[n].kind = log[n + 1].kind
                 /\ log[n].kind \in {"archive", "create_task"}
        /\ Len(inflight) <= 1
        /\ inflight # <<>> => inflight[1] = log[Len(log)]
        /\ log # <<>> => log[1].kind = "identity"
        /\ Len(log) >= 2 => log[2].kind = "query_projects"
        /\ Len(log) >= 3 => log[3].kind = "query_tasks"
        /\ (log # <<>> /\ log[Len(log)].kind = "timeline") =>
              /\ Len(log) >= BatchLen + 4
              /\ \A d \in 1..BatchLen : log[Len(log) - d].kind = "create_task"
              /\ log[Len(log) - BatchLen - 1].kind # "create_task"

\* a complete website run: every step issued its calls
C22_Witness ==
    /\ script = "website"
    /\ pc = "exited"
    /\ Cardinality(LogOfKind("archive")) = 1
    /\ Len(log) = BatchLen + 5
    /\ log[Len(log)].kind = "timeline"

\* C23: in main.py and the website script the batch method returns True
\* exactly when its failed count is 0, and run_automation returns True
\* exactly when the identity check passed, the project was found, the batch
\* method returned True and update_project_timeline returned True
C23_ReturnValues ==
    script \in {"main", "website"} =>
        /\ tasks_success # Unset =>
              /\ BatchFinished
              /\ tasks_success = "True" <=> failed_count = 0
        /\ result # Unset =>
              (result = "True" <=>
                  /\ hist.identity = 200
                  /\ project_id # NoProject
                  /\ tasks_success = "True"
                  /\ timeline_success = "True")

\* the timeline patch passed after a batch with a failed task
C23_Witness ==
    /\ script = "main"
    /\ pc = "exited"
    /\ failed_count = 1
    /\ tasks_success = "False"
    /\ timeline_success = "True"
    /\ result = "False"

\* the project query was answered with another status than 200, or raised
QueryFailed == hist.find # NoAnswer /\ hist.find # 200

\* after a failed project query: the failure is on record, the resolver
\* returned None and raised nothing, run_automation returned False, and the
\* run has issued no request but the identity check and the query
C24_AfterFailedQuery ==
    QueryFailed =>
        /\ hist.failures >= 1
        /\ hist.raised = "none"
        /\ project_id = NoProject
        /\ result = "False"
        /\ pc \in {"returned", "exited"}
        /\ \A n \in 1..Len(log) : log[n].kind \in {"identity", "query_projects"}
        /\ CreatedTasks = {}

\* C24: a project query that fails (status other than 200, or an exception)
\* makes the resolver return the not-found value without raising and
\* without any change to the remote store, and the run ends with no task
\* created
C24_FailedQueryStops ==
    [][/\ C24_AfterFailedQuery'
       /\ (pc = "find_project_wait" \/ QueryFailed) => store' = store]_vars

\* the query failed although the store holds the project
C24_Witness ==
    /\ script = "main"
    /\ hist.find = 400
    /\ QueryProjects(Fragment(script)) # <<>>
    /\ pc = "exited"
    /\ exitCode = 1

\* C25: in main.py and the website script, once the project was found the
\* timeline patch is attempted exactly once by the end of the run, also
\* when some or all task creations failed
C25_TimelineAlwaysAttempted ==
    script \in {"main", "website"} =>
        /\ Cardinality(LogOfKind("timeline")) <= 1
        /\ (project_id # NoProject /\ pc \in {"returned", "exited"}) =>
              /\ Cardinality(LogOfKind("timeline")) = 1
              /\ hist.timeline # NoAnswer
        /\ (BatchFinished /\ pc # "timeline") =>
              Cardinality(LogOfKind("timeline")) = 1

\* every creation of the batch failed and the timeline patch was still sent
C25_Witness ==
    /\ script = "website"
    /\ pc = "exited"
    /\ failed_count = BatchLen
    /\ hist.timeline = 200
    /\ Cardinality(LogOfKind("timeline")) = 1

\* the archive step did not do its work: a patch was not answered 200, or a
\* title read raised
ArchivingFailed ==
    \/ hist.unreadable >= 1
    \/ \E n \in 1..Len(hist.patches) : hist.patches[n] # 200

\* C26: in main.py and the website script, whatever happens in the archive
\* step, a run that found its project executes the whole task batch and the
\* timeline patch, and run_automation's value depends on these two alone
C26_ArchiveOutcomeIgnored ==
    (script \in {"main", "website"} /\ project_id # NoProject
        /\ pc \in {"returned", "exited"}) =>
        /\ Len(hist.answers) = BatchLen
        /\ hist.timeline # NoAnswer
        /\ result = "True" <=>
              /\ \A n \in 1..BatchLen : hist.answers[n] = 200
              /\ hist.timeline = 200

\* full success reported although the archive patch was rejected
C26_Witness ==
    /\ script = "website"
    /\ pc = "exited"
    /\ hist.patches = <<400>>
    /\ ArchivingFailed
    /\ result = "True"
    /\ exitCode = 0

\* the archiver call met an exception: requests.patch raised, or the title
\* read of the record after the last patch raised
ArchiverRaised ==
    \/ hist.unreadable >= 1
    \/ \E n \in 1..Len(hist.patches) : hist.patches[n] = Exc

\* C27: inside one archiver call (no Ctrl-C) a patch answered with a status
\* other than 200 does not stop the loop: the next record is handled; an
\* exception while handling a record (transport error, unreadable title)
\* ends the call and leaves the later records without a patch; either way
\* the call returns and run_automation goes on to the task batch
C27_ArchiverLoop ==
    (script \in {"main", "website"} /\ hist.raised = "none") =>
        /\ Cardinality(LogOfKind("archive")) \in
              {Len(hist.patches), Len(hist.patches) + 1}
        /\ \A n \in 1..Len(hist.patches) :
              LogOfTarget("archive", results[n].id) # {}
        /\ \A n \in 1..Len(hist.patches) :
              (hist.patches[n] # Exc /\ n < Len(results) /\ ArchiverDone) =>
                  \/ Len(hist.patches) > n
                  \/ ~TitleReadable(results[n + 1])
        /\ \A n \in 1..Len(hist.patches) :
              hist.patches[n] = Exc => n = Len(hist.patches)
        /\ ArchiverRaised =>
              /\ ArchiverDone
              /\ Cardinality(LogOfKind("archive")) = Len(hist.patches)
              /\ \A m \in (Len(hist.patches) + 1)..Len(results) :
                    LogOfTarget("archive", results[m].id) = {}
        /\ (ArchiverDone /\ ~ArchiverRaised) => Len(hist.patches) = Len(results)

\* the first of two patches raised: the second record was left as it was,
\* and the run went on to the end
C27_Witness ==
    /\ script = "website"
    /\ pc = "exited"
    /\ hist.raised = "none"
    /\ Len(results) = 2
    /\ hist.patches = <<Exc>>
    /\ ~tasks[results[2].id].archived
    /\ Len(hist.answers) = BatchLen

\* run_enhancement has left enhance_<d>_database for the next step
LeftDatabase(d) ==
    \/ NextDatabase(d) # "none" /\ pc' = "enhance" /\ db' = NextDatabase(d)
                                /\ prop' = 1
    \/ NextDatabase(d) = "none" /\ pc' = "create_page" /\ db' = "none"

\* one step of the enhancer seen from the property loops
C28_LoopStep ==
    script = "enhancer" =>
        \* an update request is for the current property of the current
        \* database, which is known
        /\ (Len(log') > Len(log) /\ log'[Len(log')].kind = "update_database") =>
              /\ pc = "enhance" /\ pc' = "enhance_wait"
              /\ db \in database_ids
              /\ prop \in 1..NumProperties(db)
              /\ log'[Len(log')].target = prop
              /\ db' = db /\ prop' = prop
        \* the answer to an update: an exception ends this database, a
        \* return moves to the next property in definition order
        /\ pc = "enhance_wait" =>
              IF hist'.failures > hist.failures
              THEN LeftDatabase(db)
              ELSE IF prop < NumProperties(db)
                   THEN pc' = "enhance" /\ db' = db /\ prop' = prop + 1
                   ELSE LeftDatabase(db)
        \* the databases are visited forward only, each from its first
        \* property
        /\ (db' # db /\ pc # "search_wait") => LeftDatabase(db)
        /\ (db' = db /\ prop' # prop) => prop' = prop + 1

\* a finished run_enhancement went through the later steps whatever the
\* property updates answered
C28_LaterSteps ==
    (script = "enhancer" /\ pc = "exited" /\ LogOfKind("update_database") # {}) =>
        /\ exitCode = 0
        /\ LogOfKind("retrieve_database") # {}
        /\ \A n \in LogOfKind("update_database") :
              \E m \in LogOfKind("retrieve_database") : n < m

\* C28: each enhance_<d>_database submits its property updates one at a
\* time in definition order and stops at the first update that raises; the
\* later properties of that database are not attempted, and run_enhancement
\* goes on to the next database and the later steps
C28_EnhanceStopsAtFirstError == [][C28_LoopStep /\ C28_LaterSteps']_vars

\* the second property update of the Projects database raised: its four
\* later properties were never sent, another database was updated and the
\* run finished
C28_Witness ==
    /\ script = "enhancer"
    /\ pc = "exited"
    /\ Len(log) >= 5
    /\ log[2].kind = "update_database" /\ log[2].target = 1
    /\ log[3].kind = "update_database" /\ log[3].target = 2
    /\ log[4].kind = "update_database" /\ log[4].target = 1
    /\ log[5].kind = "update_database" /\ log[5].target = 2
    /\ log[Len(log)].kind = "create_sample"

\* the two counters of a task loop after the first n of the answers as, as
\* the script sc keeps them
RECURSIVE AddedOver(_, _, _)
AddedOver(sc, as, n) ==
    IF n = 0 THEN 0
    ELSE AddedOver(sc, as, n - 1) + (IF CountsAsAdded(sc, as[n]) THEN 1 ELSE 0)

RECURSIVE FailedOver(_, _, _)
FailedOver(sc, as, n) ==
    IF n = 0 THEN 0
    ELSE FailedAfter(sc, FailedOver(sc, as, n - 1), as[n])

\* the succeeded and failed counts the script sc reports for the answers as
BatchReport(sc, as) ==
    Summary(sc, AddedOver(sc, as, Len(as)), FailedOver(sc, as, Len(as)))

\* the position in the log of the first creation request
FirstCreate ==
    CHOOSE n \in 1..Len(log) :
        log[n].kind = "create_task" /\ (n = 1 \/ log[n - 1].kind # "create_task")

\* the task loop of main.py or of the template has ended: it sent one
\* request per descriptor, in order, for the resolved project, and printed
\* the report computed from the answers
LoopAsReplayed ==
    /\ \A d \in 1..BatchLen :
          log[FirstCreate + d - 1] = Request("create_task", d, project_id)
    /\ \A n \in 1..Len(log) :
          log[n].kind = "create_task" => n \in FirstCreate..(FirstCreate + BatchLen - 1)
    /\ Len(hist.answers) = BatchLen
    /\ summary = BatchReport(script, hist.answers)

\* answers that are a status of the 2xx range other than 200
OtherAccepted(as) == {n \in 1..Len(as) : Accepted(as[n]) /\ as[n] # 200}

\* the task loop of main.py or of the template ends with this step
BatchEnds ==
    /\ script \in {"main", "template"}
    /\ summary = <<>>
    /\ summary' # <<>>

SameReport ==
    /\ LoopAsReplayed
    /\ BatchReport("main", hist.answers) = BatchReport("template", hist.answers)

\* C29 as stated: for every sequence of answers, main.py's loop and the
\* template's loop report the same succeeded and failed counts
C29_SameReport == [][BatchEnds => SameReport']_vars

SameReportUpTo2xx ==
    LET as == hist.answers
        c  == Cardinality(OtherAccepted(as))
        t  == BatchReport("template", as)
    IN  /\ LoopAsReplayed
        /\ BatchReport("main", as) = <<t[1] - c, t[2] + c, t[3]>>

\* C29: main.py's loop and the template's loop send the same requests, and
\* report the same succeeded and failed counts when every answer is 200, a
\* 4xx/5xx status or a transport error; an answer with another 2xx status is
\* counted as failed by main.py and as created by the template
C29_SameReportUpTo2xx == [][BatchEnds => SameReportUpTo2xx']_vars

\* a template run answered 200, 400 and a transport error printed the
\* report main.py prints for these answers
C29_Witness ==
    /\ BatchFinished
    /\ script = "template"
    /\ hist.answers[1] = 200 /\ hist.answers[2] = 400 /\ hist.answers[3] = Exc
    /\ OtherAccepted(hist.answers) = {}
    /\ summary = BatchReport("main", hist.answers)
    /\ summary[2] >= 2

\* the steps of run_automation in main.py and website_project_automation.py,
\* in program order
PhaseTable ==
    [p \in {"start", "test_connection", "test_connection_wait", "find_project",
            "find_project_wait", "archive_query", "archive_query_wait",
            "archive", "archive_wait", "add_tasks", "add_tasks_wait",
            "timeline", "timeline_wait", "returned", "exited"} |->
        CASE p = "start" -> 0
          [] p = "test_connection" -> 1
          [] p = "test_connection_wait" -> 2
          [] p = "find_project" -> 3
          [] p = "find_project_wait" -> 4
          [] p = "archive_query" -> 5
          [] p = "archive_query_wait" -> 6
          [] p \in {"archive", "archive_wait"} -> 7
          [] p \in {"add_tasks", "add_tasks_wait"} -> 8
          [] p = "timeline" -> 9
          [] p = "timeline_wait" -> 10
          [] p = "returned" -> 11
          [] OTHER -> 12]

Phase(p) == PhaseTable[p]

\* the position inside the archive loop and the task loop
LoopPosition ==
    CASE pc = "archive" -> 2 * k
      [] pc = "archive_wait" -> 2 * k + 1
      [] pc = "add_tasks" -> 2 * i
      [] pc = "add_tasks_wait" -> 2 * i + 1
      [] OTHER -> 0

WaitStates == {"test_connection_wait", "find_project_wait", "archive_query_wait",
               "archive_wait", "add_tasks_wait", "timeline_wait"}

\* every step moves the run forward in program order: no step is repeated,
\* and a request is sent once: for a queried record, for a descriptor, or
\* for one of the four single calls
C30_Forward ==
    script \in {"main", "website"} =>
        /\ \/ Phase(pc') > Phase(pc)
           \/ Phase(pc') = Phase(pc) /\ LoopPosition' > LoopPosition
        /\ pc' = "exited" => pc \in {"start", "returned"}
        /\ Len(log') > Len(log) =>
              LET r == log'[Len(log')]
              IN  /\ \A n \in 1..Len(log) : log[n] # r
                  /\ \/ r.kind \in {"identity", "query_projects", "query_tasks"}
                        /\ r.target = 0
                     \/ r.kind = "archive"
                        /\ \E n \in 1..Len(results) : results[n].id = r.target
                     \/ r.kind = "create_task" /\ r.target \in 1..BatchLen
                     \/ r.kind = "timeline" /\ r.target = project_id

\* the requests of a run stay within the budget, a waiting run has exactly
\* one pending request (whose answer resumes it), the loop counters stay in
\* range, and a run that returned holds a boolean
C30_Budget ==
    script \in {"main", "website"} =>
        /\ Len(log) <= 4 + Len(results) + BatchLen
        /\ Len(inflight) = IF pc \in WaitStates THEN 1 ELSE 0
        /\ Answers # {}
        /\ pc \in {"archive", "archive_wait"} => k \in 1..Len(results)
        /\ pc \in {"add_tasks", "add_tasks_wait"} => i \in 1..BatchLen
        /\ pc = "returned" => result \in {"True", "False"}
        /\ (pc = "exited" /\ log # <<>>) =>
              /\ result \in {"True", "False"}
              /\ exitCode = IF result = "True" THEN 0 ELSE 1

\* C30: when every remote call returns, run_automation of main.py and of
\* website_project_automation.py terminates: each step moves forward through
\* a bounded program order, at most 1 identity check, 1 project query, 1
\* archive query, one patch per queried record, one creation per descriptor
\* and 1 timeline patch are sent, and the run ends at a return statement
\* with a boolean
C30_Terminates == [][C30_Forward /\ C30_Budget']_vars

\* a run that used its whole budget: every queried record patched, every
\* descriptor submitted, the timeline patched, and True returned
C30_Witness ==
    /\ script = "website"
    /\ pc = "exited"
    /\ Len(results) >= 1
    /\ Len(log) = 4 + Len(results) + BatchLen
    /\ result = "True"
=========================================================================
